---- MODULE Spec2Model ----
(***************************************************************************)
(* StealStickers: a model of the plugin's lifecycle (onLoad / onUnload and *)
(* the process-wide list of unpatch handles) and of what its interception  *)
(* callback does to the host's return value (extractStickerInfo,           *)
(* walkTreeAndInject).                                                     *)
(*                                                                         *)
(* src/src/index.ts holds the current plugin (lines 301-614) and, before   *)
(* it, the message long-press build (lines 1-299);                         *)
(* src/unnamed/part_000 is an earlier build of the same plugin whose       *)
(* callback injects without the recursive tree walk.                       *)
(*                                                                         *)
(* Five specifications share the variables: Spec (lifecycle), SpecSplice   *)
(* (walkTreeAndInject), SpecCallback (the interception callback),          *)
(* SpecExtract (extractStickerInfo) and SpecDownload (downloadSticker).    *)
(***************************************************************************)
EXTENDS Integers, Sequences, FiniteSets, TLC

VARIABLES
    unpatches,   \* index.ts:318  let unpatches = []  (handles, oldest first)
    nextId,      \* the next handle the interception primitive `after` returns
    reversals,   \* handle -> how many times the handle has been invoked
    stack,       \* the onUnload calls in progress, outermost first
    lastCall,    \* "none" | "load" | "unload": the lifecycle call started last
    last,        \* what the lifecycle call that finished last did
    res,         \* the host's return value handed to the callback (a JS value)
    phase,       \* "build": the host is building res; "done": a call has run
    out,         \* what the last walkTreeAndInject / callback / extraction call did
    arg,         \* the value handed to extractStickerInfo (a JS value)
    downloads,   \* task -> the downloadSticker call an entry's onPress started
    toasts,      \* the showToast calls made so far, oldest first
    sinkLog,     \* the calls made on the download sinks so far, oldest first
    Linking      \* index.ts:316  const { Linking } = RN  (TRUE: the host has it)

lifeVars == <<unpatches, nextId, reversals, stack, lastCall, last>>
renderVars == <<res, phase, out>>
extractVars == <<arg>>
downloadVars == <<downloads, toasts, sinkLog, Linking>>
vars == <<unpatches, nextId, reversals, stack, lastCall, last, res, phase, out,
          arg, downloads, toasts, sinkLog, Linking>>

\* ---------------------------------------------------------------- bounds
MaxHandles == 4     \* handles the interception primitive hands out in one run
MaxNesting == 2     \* onUnload calls in progress at once (re-entered from a reversal)

Handles == 1..MaxHandles

\* ------------------------------------------------------- lifecycle: onLoad
\* What a registry lookup can do.
Lookups == {"absent", "found", "throws"}
\* index.ts:557  const candidates = [...]
candidates == <<"openStickerPickerActionSheet", "showStickerSheet", "default">>

\* The environment of one onLoad call:
\*   name        findByName("sticker_detail_action_sheet")
\*   nameAttach  whether after("type", ...) returns a handle or throws
\*   p1, p2      findByProps("openStickerPickerActionSheet"), findByProps("showStickerSheet")
\*   fns         the candidate keys of the found module that are functions
\*   failAt      the by-props `after` call that throws (0: none does)
LoadInputs ==
    [name : Lookups, nameAttach : {"ok", "throws"}, p1 : Lookups, p2 : Lookups,
     fns : SUBSET {1, 2, 3}, failAt : 0..3]

\* A step's result: the handle list, the next handle, the handles added
\* (with the method each was registered on), the strategies whose lookup
\* ran, and whether an exception is propagating.
Result(u, n, added, tried, threw) ==
    [u |-> u, n |-> n, added |-> added, tried |-> tried, threw |-> threw]

\* try { ... } catch (e) { console.error(...) }: the exception stops here;
\* what the body did before it threw stays done.
Catch(r) == [r EXCEPT !.threw = FALSE]

\* index.ts:471-533, the try body of patchStickerDetailSheet
DetailSheetBody(u, n, in) ==
    IF in.name = "throws" THEN Result(u, n, <<>>, {"name"}, TRUE)
    ELSE IF in.name = "absent" THEN Result(u, n, <<>>, {"name"}, FALSE)
    ELSE IF in.nameAttach = "throws" THEN Result(u, n, <<>>, {"name"}, TRUE)
    ELSE Result(Append(u, n), n + 1, <<[h |-> n, key |-> "type"]>>, {"name"}, FALSE)

patchStickerDetailSheet(u, n, in) == Catch(DetailSheetBody(u, n, in))

\* index.ts:546-547  findByProps(a) || findByProps(b): the second lookup
\* runs only when the first returned nothing.
StickerModule(in) == IF in.p1 = "absent" THEN in.p2 ELSE in.p1

\* index.ts:559-568, the loop over the candidate keys from key k on; `calls`
\* counts the `after` calls made so far in this loop.
RECURSIVE CandidateLoop(_, _, _, _, _, _)
CandidateLoop(u, n, added, in, k, calls) ==
    IF k > Len(candidates) THEN Result(u, n, added, {"props"}, FALSE)
    ELSE IF k \notin in.fns THEN CandidateLoop(u, n, added, in, k + 1, calls)
    ELSE IF in.failAt = calls + 1 THEN Result(u, n, added, {"props"}, TRUE)
    ELSE CandidateLoop(Append(u, n), n + 1,
                       Append(added, [h |-> n, key |-> candidates[k]]),
                       in, k + 1, calls + 1)

\* index.ts:545-569, the try body of patchStickerSheetByProps
ByPropsBody(u, n, in) ==
    IF StickerModule(in) = "throws" THEN Result(u, n, <<>>, {"props"}, TRUE)
    ELSE IF StickerModule(in) = "absent" THEN Result(u, n, <<>>, {"props"}, FALSE)
    ELSE CandidateLoop(u, n, <<>>, in, 1, 0)

patchStickerSheetByProps(u, n, in) == Catch(ByPropsBody(u, n, in))

\* Two statements in sequence: the second runs only if the first did not throw.
Then(r1, r2) ==
    IF r1.threw THEN r1
    ELSE [r2 EXCEPT !.added = r1.added \o r2.added, !.tried = r1.tried \cup r2.tried]

\* A plausible slip: both strategies under one try, so the first one's
\* exception skips the second.
onLoadSharedTry(u, n, in) ==
    Catch(Then(DetailSheetBody(u, n, in),
               LET r1 == DetailSheetBody(u, n, in) IN ByPropsBody(r1.u, r1.n, in)))

\* A plausible slip: onLoad starts from a fresh list.
onLoadResets(u, n, in) ==
    LET r1 == patchStickerDetailSheet(<<>>, n, in)
    IN  Catch(Then(r1, patchStickerSheetByProps(r1.u, r1.n, in)))

\* index.ts:580-597  onLoad
onLoad(u, n, in) ==
    LET r1 == patchStickerDetailSheet(u, n, in)
    IN  Catch(Then(r1, patchStickerSheetByProps(r1.u, r1.n, in)))

\* What one strategy's lookup and attach came to, read off the environment:
\* "absent" (nothing found), "throws" (the lookup or an attach threw) or "ok".
NameOutcome(in) ==
    IF in.name = "found" THEN (IF in.nameAttach = "ok" THEN "ok" ELSE "throws") ELSE in.name
PropsOutcome(in) ==
    IF StickerModule(in) = "found" THEN (IF in.failAt = 0 THEN "ok" ELSE "throws")
    ELSE StickerModule(in)
\* The first candidate key that is a function and whose `after` call returned
\* a handle (0: there is none).
FirstKey(in) ==
    IF StickerModule(in) = "found" /\ in.fns # {} /\ in.failAt # 1
    THEN CHOOSE k \in in.fns : \A j \in in.fns : k <= j
    ELSE 0
AllAbsent(in) == in.name = "absent" /\ in.p1 = "absent" /\ in.p2 = "absent"

NoCall == [op |-> "none"]

\* The host enables the plugin (index.ts:580-597). The call is synchronous
\* and the host makes it between lifecycle calls, not from inside a reversal.
OnLoad ==
    /\ stack = <<>>
    /\ \E in \in LoadInputs :
         /\ in.failAt <= Cardinality(in.fns)
         /\ LET r == onLoad(unpatches, nextId, in)
            IN  /\ r.n <= MaxHandles + 1
                /\ unpatches' = r.u
                /\ nextId' = r.n
                /\ last' = [op |-> "load", name |-> NameOutcome(in),
                            props |-> PropsOutcome(in), firstKey |-> FirstKey(in),
                            allAbsent |-> AllAbsent(in), before |-> unpatches,
                            added |-> r.added, tried |-> r.tried, threw |-> r.threw]
    /\ lastCall' = "load"
    /\ UNCHANGED <<reversals, stack, renderVars, extractVars, downloadVars>>

\* ----------------------------------------------------- lifecycle: onUnload
\* index.ts:601-602  const patchesToClean = [...unpatches]; unpatches = [];
TakeKeepsList(u) == [taken |-> u, rest |-> u]
TakeAndClear(u) == [taken |-> u, rest |-> <<>>]

\* index.ts:605-609  try { unpatch?.() } catch (e) { }: what the loop sees
\* of a reversal that ended `outcome`.
ReversalUncaught(outcome) == outcome
ReversalCaught(outcome) == "ok"

Top == stack[Len(stack)]
Pop == SubSeq(stack, 1, Len(stack) - 1)
SetTop(f) == [stack EXCEPT ![Len(stack)] = f]

\* onUnload is entered: by the host, or again from inside a reversal that
\* is running (index.ts:599-602). The frame notes whether the call came
\* right after another onUnload, and whether the onLoad before it added
\* handles to a list that already held some.
UnloadBegin ==
    /\ Len(stack) < MaxNesting
    /\ IF stack = <<>> THEN TRUE ELSE Top.pc = "inCall"
    /\ LET t == TakeAndClear(unpatches)
       IN  /\ unpatches' = t.rest
           /\ stack' = Append(stack, [clean |-> t.taken, i |-> 1, pc |-> "loop",
                                      attempted |-> <<>>, threwAt |-> {},
                                      afterUnload |-> lastCall = "unload",
                                      stacked |-> IF last.op = "load"
                                                  THEN last.before # <<>> /\ last.added # <<>>
                                                  ELSE FALSE])
    /\ lastCall' = "unload"
    /\ UNCHANGED <<nextId, reversals, last, renderVars, extractVars, downloadVars>>

\* index.ts:604-606  the loop calls the next handle
UnloadCall ==
    /\ stack # <<>>
    /\ Top.pc = "loop"
    /\ Top.i <= Len(Top.clean)
    /\ LET h == Top.clean[Top.i]
       IN  /\ reversals' = [reversals EXCEPT ![h] = @ + 1]
           /\ stack' = SetTop([Top EXCEPT !.pc = "inCall",
                                          !.attempted = Append(@, h)])
    /\ UNCHANGED <<unpatches, nextId, lastCall, last, renderVars, extractVars, downloadVars>>

\* index.ts:606-609  the handle returns or throws
UnloadReturn ==
    /\ stack # <<>>
    /\ Top.pc = "inCall"
    /\ \E outcome \in {"ok", "throws"} :
         LET f == [Top EXCEPT !.threwAt = IF outcome = "throws"
                                          THEN @ \cup {Top.clean[Top.i]} ELSE @]
         IN  IF ReversalCaught(outcome) = "ok"
             THEN /\ stack' = SetTop([f EXCEPT !.pc = "loop", !.i = @ + 1])
                  /\ UNCHANGED last
             ELSE /\ stack' = Pop
                  /\ last' = [op |-> "unload", taken |-> f.clean,
                              attempted |-> f.attempted, threwAt |-> f.threwAt,
                              escaped |-> TRUE, afterUnload |-> f.afterUnload,
                              stacked |-> f.stacked]
    /\ UNCHANGED <<unpatches, nextId, reversals, lastCall, renderVars, extractVars, downloadVars>>

\* index.ts:610-613  the loop is over and onUnload returns
UnloadEnd ==
    /\ stack # <<>>
    /\ Top.pc = "loop"
    /\ Top.i > Len(Top.clean)
    /\ stack' = Pop
    /\ last' = [op |-> "unload", taken |-> Top.clean, attempted |-> Top.attempted,
                threwAt |-> Top.threwAt, escaped |-> FALSE,
                afterUnload |-> Top.afterUnload, stacked |-> Top.stacked]
    /\ UNCHANGED <<unpatches, nextId, reversals, lastCall, renderVars, extractVars, downloadVars>>


\* ------------------------------------------------------ lifecycle claims
Range(q) == {q[i] : i \in 1..Len(q)}
Keys(added) == {added[i].key : i \in 1..Len(added)}
AddedHandles(added) == {added[i].h : i \in 1..Len(added)}
\* The state right after an onLoad / onUnload call returned to the host.
AfterLoad == last.op = "load" /\ lastCall = "load"
AfterUnload == last.op = "unload" /\ stack = <<>>

\* C1: over any sequence of onLoad and onUnload calls no handle is invoked
\* more than once, and an onUnload that directly follows an onUnload takes
\* an empty list, invokes no handle and leaves unpatches empty.
C1_NoDoubleReverse ==
    /\ \A h \in Handles : reversals[h] <= 1
    /\ \A k \in 1..Len(stack) :
          stack[k].afterUnload => stack[k].clean = <<>> /\ stack[k].attempted = <<>>
    /\ (last.op = "unload" /\ last.afterUnload) => last.attempted = <<>>
    /\ lastCall = "unload" => unpatches = <<>>

\* C1's case: handles were reversed by one onUnload and a second onUnload
\* ran directly after it.
C1_Witness ==
    /\ AfterUnload
    /\ last.afterUnload
    /\ \E h \in Handles : reversals[h] = 1

\* C2: an onUnload that returned invoked every handle it took, each once
\* and in order, whichever of them threw, and no exception left onUnload.
C2_EveryHandleAttempted ==
    last.op = "unload" =>
        /\ last.attempted = last.taken
        /\ \A i, j \in 1..Len(last.attempted) :
              last.attempted[i] = last.attempted[j] => i = j
        /\ ~last.escaped

\* C2's case: the first of several handles threw and onUnload went on.
C2_Witness ==
    /\ AfterUnload
    /\ Len(last.taken) >= 2
    /\ last.taken[1] \in last.threwAt
    /\ last.taken[Len(last.taken)] \notin last.threwAt

\* C3: while onUnload runs, unpatches holds none of the handles it took (the
\* list was emptied before the first reversal), and an onUnload entered from
\* inside a reversal takes no handle an outer onUnload took.
C3_TakenBeforeReversal ==
    /\ \A k \in 1..Len(stack) : Range(stack[k].clean) \cap Range(unpatches) = {}
    /\ \A j, k \in 1..Len(stack) :
          j < k => Range(stack[j].clean) \cap Range(stack[k].clean) = {}
    /\ \A j, k \in 1..Len(stack) :
          j < k => stack[j].clean[stack[j].i] \notin Range(stack[k].attempted)

\* C3's case: a handle's reversal is running and onUnload was entered again
\* from inside it.
C3_Witness ==
    /\ Len(stack) = 2
    /\ stack[1].pc = "inCall"
    /\ Len(stack[1].clean) >= 2
    /\ stack[2].pc = "loop"

\* C4 as stated: after an onLoad in which every lookup returned nothing, no
\* exception left onLoad, nothing was registered and unpatches is empty.
C4_Original ==
    (AfterLoad /\ last.allAbsent) =>
        /\ ~last.threw
        /\ last.added = <<>>
        /\ unpatches = <<>>

\* C4 amended: after an onLoad in which every lookup returned nothing, no
\* exception left onLoad, nothing was registered and unpatches is what it
\* was before the call (so empty whenever it was empty before).
C4_Amended ==
    (AfterLoad /\ last.allAbsent) =>
        /\ ~last.threw
        /\ last.added = <<>>
        /\ unpatches = last.before
        /\ last.before = <<>> => unpatches = <<>>

\* C4's case: an onLoad that found nothing, on an empty list.
C4_Witness ==
    /\ AfterLoad
    /\ last.allAbsent
    /\ last.before = <<>>
    /\ nextId > 1

\* C5: every onLoad runs both strategies and lets no exception out; when the
\* by-name strategy found its target and attached, its handle is in
\* unpatches whatever the by-props strategy did, and when the by-props
\* strategy attached to a key, that handle is in unpatches whatever the
\* by-name strategy did.
C5_StrategiesIndependent ==
    AfterLoad =>
        /\ ~last.threw
        /\ last.tried = {"name", "props"}
        /\ AddedHandles(last.added) \subseteq Range(unpatches)
        /\ last.name = "ok" => "type" \in Keys(last.added)
        /\ last.firstKey # 0 => candidates[last.firstKey] \in Keys(last.added)

\* C5's case: the by-name strategy threw and the by-props strategy still
\* registered a handle, or the other way round.
C5_Witness ==
    /\ AfterLoad
    /\ \/ last.name = "throws" /\ last.firstKey # 0
       \/ last.props = "throws" /\ last.name = "ok"

\* The handles `after` has returned so far.
Issued == 1..(nextId - 1)
\* The handles a running onUnload took and has not invoked yet.
Pending(k) == Range(stack[k].clean) \ Range(stack[k].attempted)

\* C16: over any sequence of onLoad and onUnload calls, several onLoad
\* calls in a row included, every handle `after` returned is in unpatches
\* from its onLoad on (each onLoad adds to what the list held), a handle in
\* unpatches has not been invoked, and the next onUnload takes it and
\* invokes it: once an onUnload has returned to the host, unpatches is
\* empty and every handle returned so far has been invoked. (While an
\* onUnload runs, the handles it has not reached yet are held by it.)
C16_EveryHandleReversed ==
    /\ \A h \in Issued :
          /\ reversals[h] = 0 =>
                \/ h \in Range(unpatches)
                \/ \E k \in 1..Len(stack) : h \in Pending(k)
          /\ h \in Range(unpatches) => reversals[h] = 0
    /\ Range(unpatches) \subseteq Issued
    /\ AfterLoad =>
          /\ unpatches = last.before \o [i \in 1..Len(last.added) |-> last.added[i].h]
          /\ Range(unpatches) = {h \in Issued : reversals[h] = 0}
    /\ AfterUnload =>
          /\ unpatches = <<>>
          /\ \A h \in Issued : reversals[h] = 1

\* C16's case: an onLoad added handles to a list that held handles of an
\* earlier onLoad, and the onUnload after it has returned.
C16_Witness ==
    /\ AfterUnload
    /\ last.stacked
    /\ Len(last.taken) >= 2
    /\ \A h \in Range(last.taken) : reversals[h] = 1


\* ---------------------------------------------------------- JS values
\* The values the plugin reads and writes, tagged with their JS type.
Undef == [tag |-> "undefined"]
Null == [tag |-> "null"]
Str(s) == [tag |-> "string", v |-> s]
Num(n) == [tag |-> "number", v |-> n]
Obj(f) == [tag |-> "object", f |-> f]
Arr(items) == [tag |-> "array", items |-> items]
Fn(captured) == [tag |-> "function", captured |-> captured]
\* An object with no own property.
EmptyObj == Obj(<<>>)

\* !v
Truthy(v) ==
    CASE v.tag \in {"undefined", "null"} -> FALSE
      [] v.tag = "string" -> v.v # ""
      [] v.tag = "number" -> v.v # 0
      [] OTHER -> TRUE
\* Array.isArray(v)
IsArray(v) == v.tag = "array"
Nullish(v) == v.tag \in {"undefined", "null"}
\* v.k for a v that is neither null nor undefined (reading those throws);
\* a property a value does not have reads as undefined.
Get(v, k) == IF v.tag = "object" /\ k \in DOMAIN v.f THEN v.f[k] ELSE Undef
\* v?.k
OptGet(v, k) == IF Nullish(v) THEN Undef ELSE Get(v, k)
\* o.k = x on an object
Set(o, k, x) == Obj([j \in DOMAIN o.f \cup {k} |-> IF j = k THEN x ELSE o.f[j]])
\* a.push(x)
Push(a, x) == Arr(Append(a.items, x))

\* ------------------------------------------------- walkTreeAndInject
\* index.ts:439  depth > 10
MaxDepth == 10

\* What a call of walkTreeAndInject did: its return value, whether it threw
\* instead of returning, and the tree as the call left it (the code mutates
\* the tree in place).
Walked(found, threw, tree) == [found |-> found, threw |-> threw, tree |-> tree]

\* tree.props.options.map(o => o.label) throws a TypeError when an element
\* is null or undefined.
MapLabelThrows(options) == \E i \in 1..Len(options.items) : Nullish(options.items[i])

WithOptions(tree, options) == Set(tree, "props", Set(Get(tree, "props"), "options", options))

\* A plausible slip: the entry is pushed before the options are logged.
InjectThenLog(tree, downloadAction) ==
    LET options == Get(Get(tree, "props"), "options")
    IN  Walked(~MapLabelThrows(options), MapLabelThrows(options),
               WithOptions(tree, Push(options, downloadAction)))

\* index.ts:443-446  log the options' labels, push the entry, return true
InjectHere(tree, downloadAction) ==
    LET options == Get(Get(tree, "props"), "options")
    IN  IF MapLabelThrows(options) THEN Walked(FALSE, TRUE, tree)
        ELSE Walked(TRUE, FALSE, WithOptions(tree, Push(options, downloadAction)))

\* index.ts:442  tree.props?.options && Array.isArray(tree.props.options)
HasOptionsArray(tree) ==
    LET options == OptGet(Get(tree, "props"), "options")
    IN  Truthy(options) /\ IsArray(options)

\* index.ts:439  depth > 10
DepthExceeded(depth) == depth > MaxDepth

RECURSIVE walkTreeAndInject(_, _, _)
RECURSIVE WalkChildren(_, _, _, _)

\* index.ts:452-456  for (const child of tree.props.children), from child i on
WalkChildren(tree, downloadAction, depth, i) ==
    LET children == Get(Get(tree, "props"), "children")
    IN  IF i > Len(children.items) THEN Walked(FALSE, FALSE, tree)
        ELSE LET r == walkTreeAndInject(children.items[i], downloadAction, depth + 1)
                 t == Set(tree, "props",
                          Set(Get(tree, "props"), "children",
                              Arr([children.items EXCEPT ![i] = r.tree])))
             IN  IF r.threw \/ r.found THEN Walked(r.found, r.threw, t)
                 ELSE WalkChildren(t, downloadAction, depth, i + 1)

\* A plausible slip: the walk goes on after the first injection.
walkInjectsEverywhere(tree, downloadAction, depth) ==
    IF ~Truthy(tree) \/ DepthExceeded(depth) THEN Walked(FALSE, FALSE, tree)
    ELSE LET here == IF HasOptionsArray(tree) THEN InjectHere(tree, downloadAction)
                     ELSE Walked(FALSE, FALSE, tree)
             children == OptGet(Get(here.tree, "props"), "children")
         IN  IF here.threw \/ ~Truthy(children) THEN here
             ELSE IF IsArray(children)
             THEN LET r == WalkChildren(here.tree, downloadAction, depth, 1)
                  IN  Walked(here.found \/ r.found, r.threw, r.tree)
             ELSE LET r == walkTreeAndInject(children, downloadAction, depth + 1)
                  IN  Walked(here.found \/ r.found, r.threw,
                             Set(here.tree, "props",
                                 Set(Get(here.tree, "props"), "children", r.tree)))

\* index.ts:438-463  walkTreeAndInject(tree, downloadAction, depth = 0)
walkTreeAndInject(tree, downloadAction, depth) ==
    IF ~Truthy(tree) \/ DepthExceeded(depth) THEN Walked(FALSE, FALSE, tree)
    ELSE IF HasOptionsArray(tree) THEN InjectHere(tree, downloadAction)
    ELSE LET children == OptGet(Get(tree, "props"), "children")
         IN  IF ~Truthy(children) THEN Walked(FALSE, FALSE, tree)
             ELSE IF IsArray(children) THEN WalkChildren(tree, downloadAction, depth, 1)
             ELSE LET r == walkTreeAndInject(children, downloadAction, depth + 1)
                  IN  Walked(r.found, r.threw,
                             Set(tree, "props", Set(Get(tree, "props"), "children", r.tree)))


\* ------------------------------------------------ the host's return values
MaxOpts == 2        \* options a host collection holds before the call
MaxChain == 10      \* wrapper nodes between the root's child and a leaf
MaxSibChain == 1    \* the same, for the children after the root's first
MaxArms == 2        \* children of the root

\* The k-th option of a host collection.
Option(k) == Obj([label |-> Str("option"), key |-> Num(k)])
\* A host collection of n options.
Options(n) == Arr([k \in 1..n |-> Option(k)])
\* A host collection with an element that is null.
BadOptions == Arr(<<Option(1), Null>>)

Node(props) == Obj([props |-> props])
LeafKinds == {"plain", "null", "opts", "badopts"}
Leaf(kind) ==
    CASE kind = "plain" -> Node(EmptyObj)
      [] kind = "null" -> Null
      [] kind = "opts" -> Node(Obj([options |-> Options(1)]))
      [] kind = "badopts" -> Node(Obj([options |-> BadOptions]))
LinkKinds == {"array", "single"}
\* d wrapper nodes, each holding the next as its only child (in a children
\* array or as a single node), around a leaf.
RECURSIVE Chain(_, _, _)
Chain(d, link, kind) ==
    IF d = 0 THEN Leaf(kind)
    ELSE LET sub == Chain(d - 1, link, kind)
         IN  Node(Obj([children |-> IF link = "array" THEN Arr(<<sub>>) ELSE sub]))
ArmsUpTo(m) == {Chain(d, link, kind) : d \in 0..m, link \in LinkKinds, kind \in LeafKinds}
Arms == ArmsUpTo(MaxChain)
\* The children arrays of up to n nodes: a first child from Arms, then
\* siblings that are chains of at most MaxSibChain wrappers.
RECURSIVE ArmLists(_)
ArmLists(n) ==
    IF n = 0 THEN {<<>>}
    ELSE LET shorter == ArmLists(n - 1)
         IN  shorter \cup {Append(q, a) : q \in {x \in shorter : Len(x) = n - 1},
                                          a \in IF n = 1 THEN Arms ELSE ArmsUpTo(MaxSibChain)}
\* The root's own options property: none, something that is no array, a
\* collection of n options, or a collection with a null element.
RootOptions == {Undef, EmptyObj, BadOptions} \cup {Options(n) : n \in 0..MaxOpts}
WithProp(f, k, v) == IF v = Undef THEN f ELSE Set(f, k, v)
Root(options, children) == Node(WithProp(WithProp(EmptyObj, "options", options), "children", children))
Trees ==
    {Root(o, Undef) : o \in RootOptions}
    \cup {Root(o, a) : o \in RootOptions, a \in Arms \ {Null}}
    \cup {Root(o, Arr(q)) : o \in RootOptions, q \in ArmLists(MaxArms) \ {<<>>}}

\* The entry the callback builds (index.ts:501-507); it closes over the
\* sticker descriptor. (The label's leading glyph is left out.)
DownloadAction(stickerInfo) ==
    Obj([label |-> Str("Download Sticker"), onPress |-> Fn(stickerInfo)])
AnyEntry == DownloadAction(Null)

\* ------------------------------------------------------ splice, on its own
InitSplice ==
    /\ res \in Trees
    /\ phase = "build"
    /\ out = [op |-> "none"]

\* walkTreeAndInject(res, downloadAction) is called on the host's value.
Splice ==
    /\ phase = "build"
    /\ LET r == walkTreeAndInject(res, AnyEntry, 0)
       IN  /\ res' = r.tree
           /\ out' = [op |-> "splice", found |-> r.found, threw |-> r.threw, before |-> res]
    /\ phase' = "done"
    /\ UNCHANGED <<lifeVars, extractVars, downloadVars>>


\* ---------------------------------------------------------- splice claims
\* The options arrays of a tree in pre-order (a node before its children,
\* children in sequence order), each with the depth of the node that
\* carries it; the root is at depth 0.
RECURSIVE PreOrder(_, _)
RECURSIVE PreOrderAll(_, _, _)
PreOrderAll(items, depth, i) ==
    IF i > Len(items) THEN <<>>
    ELSE PreOrder(items[i], depth) \o PreOrderAll(items, depth, i + 1)
PreOrder(tree, depth) ==
    IF tree.tag # "object" THEN <<>>
    ELSE LET options == OptGet(Get(tree, "props"), "options")
             children == OptGet(Get(tree, "props"), "children")
             here == IF IsArray(options)
                     THEN <<[depth |-> depth, items |-> options.items]>> ELSE <<>>
         IN  here \o (IF IsArray(children) THEN PreOrderAll(children.items, depth + 1, 1)
                      ELSE PreOrder(children, depth + 1))
\* The positions of the options arrays that differ between two traversals
\* of the same length.
Changed(b, a) == {i \in 1..Len(b) : a[i] # b[i]}
\* Array `a` is array `b` with the entry appended.
Received(b, a, entry) == a.depth = b.depth /\ a.items = Append(b.items, entry)
Within(b) == {i \in 1..Len(b) : b[i].depth <= MaxDepth}
First(S) == CHOOSE i \in S : \A j \in S : i <= j

\* C6 as stated: a call of walkTreeAndInject changes at most one options
\* array, by appending the entry, and the array that receives the entry is
\* the first options array of the tree in pre-order.
C6_Original ==
    out.op = "splice" =>
        LET b == PreOrder(out.before, 0)
            a == PreOrder(res, 0)
        IN  /\ Len(a) = Len(b)
            /\ Cardinality(Changed(b, a)) <= 1
            /\ \A i \in Changed(b, a) : i = 1 /\ Received(b[i], a[i], AnyEntry)

\* C6 amended: a call of walkTreeAndInject changes at most one options
\* array, by appending the entry, and the array that receives the entry is
\* the first in pre-order among the options arrays at depth at most 10;
\* that array receives the entry whenever the call returns true, and no
\* array changes when it does not.
C6_Amended ==
    out.op = "splice" =>
        LET b == PreOrder(out.before, 0)
            a == PreOrder(res, 0)
        IN  /\ Len(a) = Len(b)
            /\ Cardinality(Changed(b, a)) <= 1
            /\ \A i \in Changed(b, a) :
                 i = First(Within(b)) /\ Received(b[i], a[i], AnyEntry)
            /\ out.found => Changed(b, a) # {}
            /\ ~out.found => res = out.before

\* C6's case: the tree carries several options arrays within reach and the
\* call injected into the first.
C6_Witness ==
    /\ out.op = "splice"
    /\ out.found
    /\ Cardinality(Within(PreOrder(out.before, 0))) >= 2
    /\ Changed(PreOrder(out.before, 0), PreOrder(res, 0)) = {1}

\* The tree is d nested children arrays, each of one node, around a node
\* that carries an options array.
RECURSIVE OptionsUnderSequences(_, _)
OptionsUnderSequences(tree, d) ==
    /\ tree.tag = "object"
    /\ LET options == OptGet(Get(tree, "props"), "options")
           children == OptGet(Get(tree, "props"), "children")
       IN  IF d = 0 THEN IsArray(options)
           ELSE /\ ~IsArray(options)
                /\ IsArray(children)
                /\ Len(children.items) = 1
                /\ OptionsUnderSequences(children.items[1], d - 1)

\* C7 as stated: walkTreeAndInject returns true on a tree whose only options
\* array sits at depth 3 under nested children sequences, and on a tree with
\* no options array at depth 10 or less it returns false and leaves the
\* tree as it was.
C7_DepthThreeAndMiss ==
    out.op = "splice" =>
        /\ OptionsUnderSequences(out.before, 3) => out.found /\ ~out.threw
        /\ Within(PreOrder(out.before, 0)) = {} =>
             ~out.found /\ ~out.threw /\ res = out.before

\* C8 as stated: on a root that carries an options array of length N,
\* walkTreeAndInject returns true and the array is then the N elements it
\* held, in order, followed by the entry.
C8_RootAppend ==
    (out.op = "splice" /\ IsArray(OptGet(Get(out.before, "props"), "options"))) =>
        LET old == Get(Get(out.before, "props"), "options").items
            new == Get(Get(res, "props"), "options").items
        IN  /\ out.found
            /\ ~out.threw
            /\ Len(new) = Len(old) + 1
            /\ SubSeq(new, 1, Len(old)) = old
            /\ new[Len(new)] = AnyEntry


\* --------------------------------------------------- extractStickerInfo
\* What a call that can throw came to: its value, or that it threw.
Returned(v) == [val |-> v, threw |-> FALSE]
Thrown == [val |-> Undef, threw |-> TRUE]

Digits == <<"0", "1", "2", "3", "4", "5", "6", "7", "8", "9">>
\* String(n) for an integer n >= 0
RECURSIVE NatToString(_)
NatToString(n) ==
    IF n < 10 THEN Digits[n + 1] ELSE NatToString(n \div 10) \o Digits[(n % 10) + 1]
\* `${v}`
TemplateString(v) ==
    CASE v.tag = "string" -> v.v
      [] v.tag = "number" -> NatToString(v.v)
      [] v.tag = "undefined" -> "undefined"
      [] v.tag = "null" -> "null"
      [] OTHER -> "[object Object]"

\* index.ts:372-378  switch (formatType)
Extension(formatType) ==
    CASE formatType = Num(1) -> "png"
      [] formatType = Num(2) -> "apng"
      [] formatType = Num(3) -> "json"
      [] formatType = Num(4) -> "gif"
      [] OTHER -> "png"

\* index.ts:367-387  buildStickerData(sticker); reading a property of null
\* or undefined throws.
buildStickerData(sticker) ==
    IF Nullish(sticker) THEN Thrown
    ELSE LET formatType == IF Truthy(Get(sticker, "format_type"))
                           THEN Get(sticker, "format_type") ELSE Num(1)
             ext == Extension(formatType)
         IN  Returned(Obj([id |-> Get(sticker, "id"),
                           name |-> IF Truthy(Get(sticker, "name"))
                                    THEN Get(sticker, "name") ELSE Str("sticker"),
                           url |-> Str("https://cdn.discordapp.com/stickers/"
                                       \o TemplateString(Get(sticker, "id")) \o "." \o ext),
                           format |-> formatType,
                           extension |-> Str(ext)]))

\* A plausible slip: the length of the array is not looked at.
ArrayOfAnyLength(x) == Truthy(x) /\ IsArray(x)

\* index.ts:342, 347, 352  x && Array.isArray(x) && x.length > 0
NonEmptyArray(x) == Truthy(x) /\ IsArray(x) /\ Len(x.items) > 0

\* a[0]; an index past the end of an array reads as undefined.
FirstItem(a) == IF Len(a.items) > 0 THEN a.items[1] ELSE Undef

\* index.ts:27-49  extractStickerInfo(message), the extractor of the message
\* long-press build: it knows the three collection fields only.
extractStickerInfoFromMessage(message) ==
    IF ~Truthy(message) THEN Returned(Null)
    ELSE IF NonEmptyArray(Get(message, "stickerItems"))
    THEN buildStickerData(FirstItem(Get(message, "stickerItems")))
    ELSE IF NonEmptyArray(Get(message, "sticker_items"))
    THEN buildStickerData(FirstItem(Get(message, "sticker_items")))
    ELSE IF NonEmptyArray(Get(message, "stickers"))
    THEN buildStickerData(FirstItem(Get(message, "stickers")))
    ELSE Returned(Null)

\* A plausible slip: the nested-sticker step builds from the wrapper.
extractBuildsFromContext(context) ==
    IF ~Truthy(context) THEN Returned(Null)
    ELSE IF Truthy(Get(context, "id")) /\ Truthy(Get(context, "format_type"))
    THEN buildStickerData(context)
    ELSE IF Truthy(Get(context, "sticker")) /\ Truthy(Get(Get(context, "sticker"), "id"))
    THEN buildStickerData(context)
    ELSE IF NonEmptyArray(Get(context, "stickerItems"))
    THEN buildStickerData(FirstItem(Get(context, "stickerItems")))
    ELSE IF NonEmptyArray(Get(context, "sticker_items"))
    THEN buildStickerData(FirstItem(Get(context, "sticker_items")))
    ELSE IF NonEmptyArray(Get(context, "stickers"))
    THEN buildStickerData(FirstItem(Get(context, "stickers")))
    ELSE Returned(Null)

\* A plausible slip: the snake-case collection is tried before the
\* camel-case one.
extractSnakeCaseFirst(context) ==
    IF ~Truthy(context) THEN Returned(Null)
    ELSE IF Truthy(Get(context, "id")) /\ Truthy(Get(context, "format_type"))
    THEN buildStickerData(context)
    ELSE IF Truthy(Get(context, "sticker")) /\ Truthy(Get(Get(context, "sticker"), "id"))
    THEN buildStickerData(Get(context, "sticker"))
    ELSE IF NonEmptyArray(Get(context, "sticker_items"))
    THEN buildStickerData(FirstItem(Get(context, "sticker_items")))
    ELSE IF NonEmptyArray(Get(context, "stickerItems"))
    THEN buildStickerData(FirstItem(Get(context, "stickerItems")))
    ELSE IF NonEmptyArray(Get(context, "stickers"))
    THEN buildStickerData(FirstItem(Get(context, "stickers")))
    ELSE Returned(Null)

\* index.ts:328-357  extractStickerInfo(context)
extractStickerInfo(context) ==
    IF ~Truthy(context) THEN Returned(Null)
    ELSE IF Truthy(Get(context, "id")) /\ Truthy(Get(context, "format_type"))
    THEN buildStickerData(context)
    ELSE IF Truthy(Get(context, "sticker")) /\ Truthy(Get(Get(context, "sticker"), "id"))
    THEN buildStickerData(Get(context, "sticker"))
    ELSE IF NonEmptyArray(Get(context, "stickerItems"))
    THEN buildStickerData(FirstItem(Get(context, "stickerItems")))
    ELSE IF NonEmptyArray(Get(context, "sticker_items"))
    THEN buildStickerData(FirstItem(Get(context, "sticker_items")))
    ELSE IF NonEmptyArray(Get(context, "stickers"))
    THEN buildStickerData(FirstItem(Get(context, "stickers")))
    ELSE Returned(Null)

\* a || b, where each operand can throw and b runs only when a is falsy
OrElse(a, b) == IF a.threw \/ Truthy(a.val) THEN a ELSE b

\* index.ts:488-490  the callback's three extraction attempts
ExtractFromProps(props) ==
    OrElse(extractStickerInfo(props),
           OrElse(extractStickerInfo(OptGet(props, "sticker")),
                  extractStickerInfo(OptGet(props, "message"))))

\* ------------------------------------------------ the interception callback
\* What a call of the callback did: the value it returned ("res": the very
\* object it was given), the tree as the call left it, whether an exception
\* was raised inside it and at which step, whether one left it, and the
\* descriptor it extracted.
Called(tree, raised, stage, info, spliced) ==
    [ret |-> "res", tree |-> tree, raised |-> raised, stage |-> stage,
     escaped |-> raised, info |-> info, spliced |-> spliced]

\* index.ts:525-529  catch (e) { console.error(...) } return res
CallbackCatch(c) == [c EXCEPT !.escaped = FALSE]

\* index.ts:483-523, the try body of the callback of patchStickerDetailSheet
CallbackBody(props, tree) ==
    LET e == ExtractFromProps(props)
    IN  IF e.threw THEN Called(tree, TRUE, "extract", Null, FALSE)
        ELSE IF ~Truthy(e.val) THEN Called(tree, FALSE, "miss", Null, FALSE)
        ELSE LET w == walkTreeAndInject(tree, DownloadAction(e.val), 0)
             IN  IF w.threw THEN Called(w.tree, TRUE, "splice", e.val, FALSE)
                 ELSE Called(w.tree, FALSE, "splice", e.val, w.found)

\* index.ts:481-530  (args, res) => { ... }
DetailCallback(props, tree) == CallbackCatch(CallbackBody(props, tree))

\* part_000:176-201  if (res?.props) { ... }: the earlier build's injection
LegacyInject(tree, downloadAction) ==
    LET props == OptGet(tree, "props")
        children == Get(props, "children")
        WithChildren(c) == Set(tree, "props", Set(props, "children", c))
        hits == IF IsArray(children)
                THEN {i \in 1..Len(children.items) :
                        LET o == OptGet(OptGet(children.items[i], "props"), "options")
                        IN  Truthy(o) /\ IsArray(o)}
                ELSE {}
    IN  IF ~Truthy(props) THEN Walked(FALSE, FALSE, tree)
        ELSE IF IsArray(Get(props, "options"))
        THEN Walked(TRUE, FALSE, WithOptions(tree, Push(Get(props, "options"), downloadAction)))
        ELSE IF props.tag # "object" THEN Walked(FALSE, TRUE, tree)
        ELSE IF ~Truthy(children) THEN Walked(FALSE, FALSE, WithChildren(downloadAction))
        ELSE IF ~IsArray(children)
        THEN Walked(FALSE, FALSE, WithChildren(Arr(<<children, downloadAction>>)))
        ELSE IF hits = {} THEN Walked(FALSE, FALSE, WithChildren(Push(children, downloadAction)))
        ELSE LET i == CHOOSE i \in hits : \A j \in hits : i <= j
                 child == children.items[i]
                 o == Get(Get(child, "props"), "options")
             IN  Walked(TRUE, FALSE,
                        WithChildren(Arr([children.items EXCEPT
                                            ![i] = WithOptions(child, Push(o, downloadAction))])))

\* part_000:153-201, the try body of the earlier build's callback
LegacyBody(props, tree) ==
    LET e == ExtractFromProps(props)
    IN  IF e.threw THEN Called(tree, TRUE, "extract", Null, FALSE)
        ELSE IF ~Truthy(e.val) THEN Called(tree, FALSE, "miss", Null, FALSE)
        ELSE LET w == LegacyInject(tree, DownloadAction(e.val))
             IN  IF w.threw THEN Called(w.tree, TRUE, "splice", e.val, FALSE)
                 ELSE Called(w.tree, FALSE, "splice", e.val, w.found)

\* part_000:151-208  (args, res) => { ... }
LegacyCallback(props, tree) == CallbackCatch(LegacyBody(props, tree))

\* A sticker record as the host holds it.
Sticker == Obj([id |-> Str("999"), name |-> Str("Pug"), format_type |-> Num(4)])
\* The first argument of an intercepted call.
PropsSet ==
    {Undef, EmptyObj, Sticker,
     Obj([sticker |-> Sticker]),
     Obj([sticker |-> Obj([stickerItems |-> Arr(<<Sticker>>)])]),
     Obj([message |-> Obj([sticker_items |-> Arr(<<Sticker>>)])]),
     Obj([message |-> Obj([stickers |-> Arr(<<>>)])]),
     Obj([stickerItems |-> Arr(<<Null>>)])}

\* The return values the callback is tried on: roots whose children are
\* chains of at most MaxSibChain wrappers.
ShallowTrees ==
    {Root(o, Undef) : o \in RootOptions}
    \cup {Root(o, a) : o \in RootOptions, a \in ArmsUpTo(MaxSibChain) \ {Null}}
    \cup {Root(o, Arr(q)) : o \in RootOptions,
                            q \in {x \in ArmLists(MaxArms) : x # <<>> /\ x[1] \in ArmsUpTo(MaxSibChain)}}

InitCallback ==
    /\ res \in ShallowTrees
    /\ phase = "build"
    /\ out = [op |-> "none"]

Recorded(op, props, c, before) ==
    [op |-> op, ret |-> c.ret, raised |-> c.raised, stage |-> c.stage,
     escaped |-> c.escaped, info |-> c.info, spliced |-> c.spliced, before |-> before]

\* The host calls the intercepted function; the callback of index.ts runs on
\* its arguments and return value.
Callback ==
    /\ phase = "build"
    /\ \E props \in PropsSet :
         LET c == DetailCallback(props, res)
         IN  /\ res' = c.tree
             /\ out' = Recorded("callback", props, c, res)
    /\ phase' = "done"
    /\ UNCHANGED <<lifeVars, extractVars, downloadVars>>

\* The same call under the earlier build (part_000).
CallbackLegacy ==
    /\ phase = "build"
    /\ \E props \in PropsSet :
         LET c == LegacyCallback(props, res)
         IN  /\ res' = c.tree
             /\ out' = Recorded("legacy", props, c, res)
    /\ phase' = "done"
    /\ UNCHANGED <<lifeVars, extractVars, downloadVars>>

\* -------------------------------------------------------- callback claims
\* C9: when an exception is raised inside the callback of index.ts, in
\* extraction or in splicing, no exception leaves the callback, the callback
\* returns the object it was given, and that object is as it was.
C9_ExceptionsContained ==
    (out.op = "callback" /\ out.raised) =>
        /\ ~out.escaped
        /\ out.ret = "res"
        /\ res = out.before

\* C9's case: the descriptor was extracted and the splice threw.
C9_Witness ==
    /\ out.op = "callback"
    /\ out.raised
    /\ out.stage = "splice"

\* C9's other case: extraction threw.
C9_WitnessExtract ==
    /\ out.op = "callback"
    /\ out.raised
    /\ out.stage = "extract"

\* C10 as stated: when the callback (of either build) finds no payload, or
\* finds one and the return value holds no options array, it returns the
\* object it was given and that object is as it was.
C10_MissLeavesValue ==
    (/\ out.op \in {"callback", "legacy"}
     /\ ~out.raised
     /\ out.stage = "miss" \/ PreOrder(out.before, 0) = <<>>) =>
        /\ out.ret = "res"
        /\ res = out.before

\* C10 for the build of index.ts alone.
C10_MissLeavesValueIndex ==
    (/\ out.op = "callback"
     /\ ~out.raised
     /\ out.stage = "miss" \/ PreOrder(out.before, 0) = <<>>) =>
        /\ out.ret = "res"
        /\ res = out.before

\* ----------------------------------------------- extraction, on its own
MaxFormatType == 5  \* the largest format_type number a record carries

\* The fields of a record the host hands over; Undef: the record lacks it.
Ids == {Undef, Str("999"), Num(7)}
FormatTypes == {Undef, Num(0)} \cup {Num(k) : k \in 1..MaxFormatType}
Names == {Undef, Str("Pug")}
Record(id, formatType, name) ==
    WithProp(WithProp(WithProp(EmptyObj, "id", id), "format_type", formatType), "name", name)
Records == {Record(i, f, n) : i \in Ids, f \in FormatTypes, n \in Names}

CollectionKeys == <<"stickerItems", "sticker_items", "stickers">>
\* {sticker: r} and, for each collection field, {field: [r]} and {field: [r, null]}.
Wrappers(r) ==
    {Obj([sticker |-> r])}
    \cup {Set(EmptyObj, CollectionKeys[k], Arr(q)) : k \in 1..3, q \in {<<r>>, <<r, Null>>}}

\* The record an input carries in one place; its id says where it sits.
Placed(where) == Obj([id |-> Str(where), format_type |-> Num(2)])
PlacedIdOnly(where) == Obj([id |-> Str(where)])
CollectionValues(where) == {Undef, Arr(<<>>), Arr(<<Placed(where)>>), Arr(<<Null>>)}
\* Inputs that carry something in several places at once.
Mixed ==
    {WithProp(WithProp(WithProp(WithProp(self, "sticker", s), "stickerItems", a),
                       "sticker_items", b), "stickers", c) :
        self \in {EmptyObj, Placed("self"), PlacedIdOnly("self")},
        s \in {Undef, EmptyObj, Placed("sticker"), PlacedIdOnly("sticker")},
        a \in CollectionValues("stickerItems"),
        b \in CollectionValues("sticker_items"),
        c \in CollectionValues("stickers")}

ExtractInputs ==
    {Undef, Null} \cup Records \cup UNION {Wrappers(r) : r \in Records} \cup Mixed

InitExtract ==
    /\ arg \in ExtractInputs
    /\ res = [tag |-> "undefined"]
    /\ phase = "build"
    /\ out = [op |-> "none"]

\* extractStickerInfo(context) is called, with the value in arg (index.ts:328).
Extract ==
    /\ phase = "build"
    /\ out' = [op |-> "extract", result |-> extractStickerInfo(arg)]
    /\ phase' = "done"
    /\ UNCHANGED <<lifeVars, res, extractVars, downloadVars>>

\* The extractor of the message long-press build is called (index.ts:27).
ExtractMessage ==
    /\ phase = "build"
    /\ out' = [op |-> "message", result |-> extractStickerInfoFromMessage(arg)]
    /\ phase' = "done"
    /\ UNCHANGED <<lifeVars, res, extractVars, downloadVars>>

\* ------------------------------------------------------ extraction claims
\* The record has an identifier and a format-kind field (values JS takes
\* as true).
StickerShaped(r) == Truthy(OptGet(r, "id")) /\ Truthy(OptGet(r, "format_type"))
\* The call returned a descriptor / returned absent.
IsDescriptor(r) == ~r.threw /\ r.val.tag = "object"
IsAbsent(r) == ~r.threw /\ r.val = Null
HasItems(input, key) ==
    LET x == OptGet(input, key) IN IsArray(x) /\ Len(x.items) > 0

\* C11: for every sticker-shaped record r, extractStickerInfo applied to
\* {sticker: r}, {stickerItems: [r, ...]}, {sticker_items: [r, ...]} and
\* {stickers: [r, ...]} returns a descriptor, the one it returns for r.
C11_WrappersEqualDirect ==
    out.op = "extract" =>
        \A r \in Records :
            (StickerShaped(r) /\ arg \in Wrappers(r)) =>
                /\ IsDescriptor(out.result)
                /\ out.result = extractStickerInfo(r)

\* C11's case: a sticker-shaped record came first in a collection of two.
C11_Witness ==
    /\ out.op = "extract"
    /\ \E r \in Records :
         /\ StickerShaped(r)
         /\ arg = Obj([sticker_items |-> Arr(<<r, Null>>)])
    /\ IsDescriptor(out.result)

\* The fixed table: format kind -> file extension.
FormatTable == <<"png", "apng", "json", "gif">>
Recognized == {Num(k) : k \in 1..Len(FormatTable)}

\* C12 as stated: every descriptor extractStickerInfo produces has a format
\* among the four of the table (the first, when the record's format_type is
\* unrecognized or absent), its extension is the table's for that format,
\* and its url is https://cdn.discordapp.com/stickers/<id>.<extension>.
C12_FormatTable ==
    (out.op = "extract" /\ IsDescriptor(out.result)) =>
        LET d == out.result.val
        IN  /\ Get(d, "format") \in Recognized
            /\ Get(d, "extension") = Str(FormatTable[Get(d, "format").v])
            /\ Get(d, "url") = Str("https://cdn.discordapp.com/stickers/"
                                   \o TemplateString(Get(d, "id")) \o "."
                                   \o Get(d, "extension").v)
            /\ \A r \in Records :
                 (arg = Obj([sticker |-> r]) /\ Get(r, "format_type") \notin Recognized)
                     => Get(d, "format") = Num(1)

\* C12 for records whose format_type is one of the four or is absent.
C12_FormatTableRecognized ==
    (/\ out.op = "extract"
     /\ IsDescriptor(out.result)
     /\ \E r \in Records :
          /\ arg \in {r} \cup Wrappers(r)
          /\ Get(r, "format_type") \in Recognized \cup {Undef, Num(0)}) =>
        LET d == out.result.val
        IN  /\ Get(d, "format") \in Recognized
            /\ Get(d, "extension") = Str(FormatTable[Get(d, "format").v])
            /\ Get(d, "url") = Str("https://cdn.discordapp.com/stickers/"
                                   \o TemplateString(Get(d, "id")) \o "."
                                   \o Get(d, "extension").v)

ShapeMatches(i, input) ==
    CASE i = 1 -> StickerShaped(input)
      [] i = 2 -> Truthy(OptGet(OptGet(input, "sticker"), "id"))
      [] OTHER -> HasItems(input, CollectionKeys[i - 2])
ShapeRecord(i, input) ==
    CASE i = 1 -> input
      [] i = 2 -> Get(input, "sticker")
      [] OTHER -> Get(input, CollectionKeys[i - 2]).items[1]
Matching(input, places) == {i \in places : ShapeMatches(i, input)}

MaxDownloads == 2   \* downloadSticker calls a run starts

Tasks == 1..MaxDownloads

\* The characters of the names the model uses.
Chars(s) ==
    CASE s = "Pug" -> <<"P", "u", "g">>
      [] s = "my pug!" -> <<"m", "y", " ", "p", "u", "g", "!">>
\* [a-zA-Z0-9], as far as the names above go
AlphaNumeric == {"P", "u", "g", "m", "y", "p"}
RECURSIVE Join(_)
Join(chars) == IF chars = <<>> THEN "" ELSE Head(chars) \o Join(Tail(chars))
\* index.ts:398  name.replace(/[^a-zA-Z0-9]/g, "_")
Sanitized(s) ==
    Join([i \in DOMAIN Chars(s) |-> IF Chars(s)[i] \in AlphaNumeric THEN Chars(s)[i] ELSE "_"])
\* index.ts:398  `${name.replace(...)}_${stickerInfo.id}.${stickerInfo.extension}`
Filename(stickerInfo) ==
    Sanitized(Get(stickerInfo, "name").v) \o "_" \o TemplateString(Get(stickerInfo, "id"))
        \o "." \o TemplateString(Get(stickerInfo, "extension"))

\* The descriptors an entry's onPress closes over (index.ts:501-507).
Descriptors ==
    {buildStickerData(r).val :
        r \in {Sticker, Obj([id |-> Num(7), name |-> Str("my pug!"), format_type |-> Num(3)])}}

\* The host registry, as the modules it holds (each the set of the
\* functions it exports), in lookup order.
Registries ==
    {<<>>, <<{"downloadFile"}>>, <<{"downloadFile", "saveFile"}>>, <<{"saveFile"}>>,
     <<{"downloadAsset"}>>, <<{"downloadAsset"}, {"saveFile"}>>}
NoModule == {}
\* findByProps(prop, false): the first module that exports prop
findByProps(registry, prop) ==
    LET hits == {i \in 1..Len(registry) : prop \in registry[i]}
    IN  IF hits = {} THEN NoModule
        ELSE registry[CHOOSE i \in hits : \A j \in hits : i <= j]
\* index.ts:401-403  findByProps(a) || findByProps(b) || findByProps(c)
FileManager(registry) ==
    IF findByProps(registry, "downloadFile") # NoModule
    THEN findByProps(registry, "downloadFile")
    ELSE IF findByProps(registry, "saveFile") # NoModule
    THEN findByProps(registry, "saveFile")
    ELSE findByProps(registry, "downloadAsset")

\* index.ts:405-423  the sink downloadSticker calls: "none" when there is
\* neither a file manager function nor Linking.
ChosenSink(registry, linking) ==
    IF "downloadFile" \in FileManager(registry) THEN "downloadFile"
    ELSE IF "saveFile" \in FileManager(registry) THEN "saveFile"
    ELSE IF linking THEN "openURL"
    ELSE "none"

\* index.ts:407, 413, 420  the toast after the awaited call went through
SuccessToast(sink, stickerInfo) ==
    CASE sink = "downloadFile" -> "Downloaded " \o Get(stickerInfo, "name").v \o "!"
      [] sink = "saveFile" -> "Saved " \o Get(stickerInfo, "name").v \o "!"
      [] sink = "openURL" -> "Opened sticker URL"

\* The errors a sink fails with.
Failures == {Obj([message |-> Str("network error")]), Obj([message |-> Str("no space left")])}

\* A plausible slip: the failure is not caught and leaves downloadSticker
\* as a rejection nobody handles.
DownloadRethrows(e) == [escaped |-> TRUE, notify |-> <<>>]
\* index.ts:425-428  catch (e) { console.error(...); showToast(`Failed: ${e.message}`) }
DownloadCatch(e) ==
    [escaped |-> FALSE, notify |-> <<"Failed: " \o TemplateString(Get(e, "message"))>>]

IdleTask == [pc |-> "idle"]

InitDownloadIdle ==
    /\ downloads = [t \in Tasks |-> IdleTask]
    /\ toasts = <<>>
    /\ sinkLog = <<>>
    /\ Linking = TRUE

InitDownload ==
    /\ downloads = [t \in Tasks |-> IdleTask]
    /\ toasts = <<>>
    /\ sinkLog = <<>>
    /\ Linking \in BOOLEAN

\* The user presses an injected entry: onPress calls downloadSticker
\* (index.ts:503-505), which runs up to its first await (index.ts:397-419).
Press(t) ==
    /\ downloads[t].pc = "idle"
    /\ \E stickerInfo \in Descriptors, registry \in Registries :
         LET sink == ChosenSink(registry, Linking)
             call == [task |-> t, sink |-> sink, url |-> Get(stickerInfo, "url").v,
                      filename |-> IF sink = "openURL" THEN "" ELSE Filename(stickerInfo)]
         IN  IF sink = "none"
             THEN /\ downloads' = [downloads EXCEPT ![t] =
                        [pc |-> "done", stickerInfo |-> stickerInfo, sink |-> sink,
                         failure |-> Null, escaped |-> FALSE]]
                  /\ toasts' = Append(toasts, [task |-> t, message |-> "Download not available"])
                  /\ UNCHANGED sinkLog
             ELSE /\ downloads' = [downloads EXCEPT ![t] =
                        [pc |-> "awaiting", stickerInfo |-> stickerInfo, sink |-> sink,
                         failure |-> Null, escaped |-> FALSE]]
                  /\ sinkLog' = Append(sinkLog, call)
                  /\ UNCHANGED toasts
    /\ UNCHANGED <<lifeVars, renderVars, extractVars, Linking>>

\* The awaited sink call went through (index.ts:406-408, 412-414, 419-420).
SinkCompletes(t) ==
    /\ downloads[t].pc = "awaiting"
    /\ downloads' = [downloads EXCEPT ![t].pc = "done"]
    /\ toasts' = Append(toasts, [task |-> t,
                                 message |-> SuccessToast(downloads[t].sink,
                                                          downloads[t].stickerInfo)])
    /\ UNCHANGED <<lifeVars, renderVars, extractVars, sinkLog, Linking>>

\* The awaited sink call failed with e (index.ts:425-428).
SinkFails(t) ==
    /\ downloads[t].pc = "awaiting"
    /\ \E e \in Failures :
         LET c == DownloadCatch(e)
         IN  /\ downloads' = [downloads EXCEPT ![t].pc = "done", ![t].failure = e,
                                               ![t].escaped = c.escaped]
             /\ toasts' = toasts \o [i \in 1..Len(c.notify) |->
                                        [task |-> t, message |-> c.notify[i]]]
    /\ UNCHANGED <<lifeVars, renderVars, extractVars, sinkLog, Linking>>

\* ------------------------------------------------------- download claims
ToastsOf(t) == SelectSeq(toasts, LAMBDA x : x.task = t)
SinkCallsOf(t) == SelectSeq(sinkLog, LAMBDA x : x.task = t)
Failed(t) == downloads[t].pc = "done" /\ downloads[t].failure # Null

\* C15: when the sink a download called fails, showToast is called exactly
\* once for that download, with the failure's message; no sink is called
\* for it again; nothing leaves downloadSticker; and every other download
\* has made exactly the calls its own course gives: one sink call and no
\* toast while it waits, one sink call and its success toast once through.
C15_FailureReportedOnce ==
    \A t \in Tasks :
        Failed(t) =>
            /\ ToastsOf(t) = <<[task |-> t,
                                message |-> "Failed: " \o Get(downloads[t].failure, "message").v]>>
            /\ Len(SinkCallsOf(t)) = 1
            /\ ~downloads[t].escaped
            /\ \A u \in Tasks \ {t} :
                 /\ downloads[u].pc = "idle" => ToastsOf(u) = <<>> /\ SinkCallsOf(u) = <<>>
                 /\ downloads[u].pc = "awaiting" =>
                      ToastsOf(u) = <<>> /\ Len(SinkCallsOf(u)) = 1
                 /\ (downloads[u].pc = "done" /\ ~Failed(u) /\ downloads[u].sink # "none") =>
                      /\ ToastsOf(u) = <<[task |-> u,
                                          message |-> SuccessToast(downloads[u].sink,
                                                                   downloads[u].stickerInfo)]>>
                      /\ Len(SinkCallsOf(u)) = 1

\* C15's case: a download's sink failed while another download was waiting,
\* and that one then went through.
C15_Witness ==
    /\ Failed(1)
    /\ downloads[1].sink = "downloadFile"
    /\ downloads[2].pc = "done"
    /\ ~Failed(2)
    /\ downloads[2].sink = "saveFile"
    /\ toasts[1].task = 1

InitLife ==
    /\ unpatches = <<>>
    /\ nextId = 1
    /\ reversals = [h \in Handles |-> 0]
    /\ stack = <<>>
    /\ lastCall = "none"
    /\ last = NoCall

InitRenderIdle ==
    /\ res = [tag |-> "undefined"]
    /\ phase = "build"
    /\ out = [op |-> "none"]

InitExtractIdle == arg = [tag |-> "undefined"]

Init == InitLife /\ InitRenderIdle /\ InitExtractIdle /\ InitDownloadIdle

Next ==
    \/ OnLoad
    \/ UnloadBegin
    \/ UnloadCall
    \/ UnloadReturn
    \/ UnloadEnd

Spec == Init /\ [][Next]_vars

InitCallbackOnly == InitLife /\ InitCallback /\ InitExtractIdle /\ InitDownloadIdle
NextCallback ==
    \/ Callback
    \/ CallbackLegacy
SpecCallback == InitCallbackOnly /\ [][NextCallback]_vars

InitSpliceOnly == InitLife /\ InitSplice /\ InitExtractIdle /\ InitDownloadIdle
SpecSplice == InitSpliceOnly /\ [][Splice]_vars

InitExtractOnly == InitLife /\ InitExtract /\ InitDownloadIdle
NextExtract ==
    \/ Extract
    \/ ExtractMessage
SpecExtract == InitExtractOnly /\ [][NextExtract]_vars

InitDownloadOnly == InitLife /\ InitRenderIdle /\ InitExtractIdle /\ InitDownload
NextDownload ==
    \/ \E t \in Tasks : Press(t)
    \/ \E t \in Tasks : SinkCompletes(t)
    \/ \E t \in Tasks : SinkFails(t)
SpecDownload == InitDownloadOnly /\ [][NextDownload]_vars
====
